---- MODULE Spec2Model ----
(***************************************************************************)
(* A model of the SmartDocs front-end: the client-side session store (two  *)
(* variants), the router and its route guards (three variants), the        *)
(* per-file upload list, the Documents views and the Dashboard aggregation.*)
(***************************************************************************)
EXTENDS Bags, FiniteSets, Integers, Sequences, TLC

VARIABLES
    storeVariant,     \* "token": stores/authStore.ts, "access_token": App.tsx 57-142
    storage,          \* localStorage: key -> Null (absent) or a string value
    storeLoaded,      \* FALSE when evaluating the store module threw
    token,            \* useAuthStore state
    user,
    isAuthenticated,
    authHeader,       \* axios.defaults.headers.common['Authorization']
    pending,          \* bag of login/register calls awaiting a response
    lastResult,       \* the store operation that settled last, and how
    staleCalls,       \* history: the calls that were in flight at the last logout
    router,           \* "guard": App.tsx, "flat": App.js, "nested": Upload.tsx 194-232
    path,             \* current location
    screen,           \* what the router rendered for path at the last render
    uploadMounted,    \* the Upload page (pages/Upload.tsx) is mounted
    files,            \* its list of upload tasks
    uploads,          \* uploadFile calls that have not returned yet
    nextFile,         \* number of File handles the user has dropped so far
    everUploading,    \* history: the files whose task has had status uploading
    lastProgress,     \* history: the progress event handled last, its file and percentage
    docsVariant,      \* "token": Documents of part_001, "search": Documents of part_002
    docsMounted,      \* the Documents view is mounted
    documents,        \* its state
    docsLoading,
    docsError,
    searchQuery,
    selectedCategory,
    categories,
    fetches,          \* bag of GET /documents requests of the view awaiting a response
    deletes,          \* bag of DELETE /documents/<id> requests awaiting a response
    downloads,        \* bag of GET /documents/<id>/download requests awaiting a response
    docsLast,         \* history: what the view handled last
    shownFor,         \* history: the request whose response the view shows
    dashMounted,      \* the Dashboard of components/Dashboard.tsx is mounted
    stats,            \* its state
    dashLoading,
    dashFetches,      \* bag of its GET /documents requests awaiting a response
    dashLast,         \* history: the document list of the response handled last
    board,            \* the Dashboard of pages/Dashboard.tsx: mounted, stats,
                      \* recentDocuments, loading
    boardLoads,       \* bag of its fetchDashboardData calls that have not settled
    singleMounted,    \* the single-file Upload view of part_001 is mounted
    single,           \* its state: uploading, error, success
    singlePosts       \* bag of its POST /documents/upload requests awaiting a response

sessionVars == <<storeVariant, storage, storeLoaded, token, user, isAuthenticated,
                 authHeader, pending, lastResult, staleCalls>>
routeVars == <<router, path, screen>>
uploadVars == <<uploadMounted, files, uploads, nextFile, everUploading, lastProgress>>
docsVars == <<docsVariant, docsMounted, documents, docsLoading, docsError, searchQuery,
              selectedCategory, categories, fetches, deletes, downloads, docsLast,
              shownFor>>
boardVars == <<board, boardLoads, singleMounted, single, singlePosts>>
dashVars == <<dashMounted, stats, dashLoading, dashFetches, dashLast, boardVars>>
viewVars == <<uploadVars, docsVars, dashVars>>

(***************************************************************************)
(* Bounds                                                                  *)
(***************************************************************************)
MaxCalls == 2
MaxFiles == 3
MaxFetches == 2
MaxDocs == 3

(***************************************************************************)
(* JavaScript values: null, undefined, strings and plain objects.          *)
(***************************************************************************)
Null == [t |-> "null"]
Undefined == [t |-> "undefined"]
Str(s) == [t |-> "string", v |-> s]
Obj(n) == [t |-> "object", v |-> n]
JSNum(n) == [t |-> "number", n |-> n]
Function(name) == [t |-> "function", v |-> name]

UserNames == {"alice"}
ResponseTokens == {Str("t1"), Str("t2"), Str(""), Undefined}
ResponseUsers == {Obj(n) : n \in UserNames} \cup {Undefined}
Failures == {"401", "500", "network"}

\* String(v), as applied by localStorage.setItem and by template literals
JSString(v) ==
    CASE v.t = "string" -> v.v
      [] v.t = "null" -> "null"
      [] v.t = "undefined" -> "undefined"
      [] v.t = "object" -> "[object Object]"
      [] v.t = "function" -> "function " \o v.v \o "() { [native code] }"

\* !!v
Truthy(v) ==
    CASE v.t = "string" -> v.v # ""
      [] v.t = "null" -> FALSE
      [] v.t = "undefined" -> FALSE
      [] v.t = "object" -> TRUE
      [] v.t = "function" -> TRUE
      [] v.t = "number" -> v.n # 0

ObjectText(n) == "{\"username\":\"" \o n \o "\"}"

\* JSON.stringify(v): undefined has no JSON text and yields undefined
JSONstringify(v) ==
    CASE v.t = "object" -> Str(ObjectText(v.v))
      [] v.t = "null" -> Str("null")
      [] v.t = "string" -> Str("\"" \o v.v \o "\"")
      [] v.t = "undefined" -> Undefined

\* JSON.parse(text) succeeds on the texts JSON.stringify produces
JSONparses(text) ==
    \/ text = "null"
    \/ \E n \in UserNames : text = ObjectText(n)

JSONparse(text) ==
    IF text = "null" THEN Null
    ELSE Obj(CHOOSE n \in UserNames : text = ObjectText(n))

(***************************************************************************)
(* localStorage                                                            *)
(***************************************************************************)
StorageKeys == {"token", "user"}
EmptyStorage == [k \in StorageKeys |-> Null]

GetItem(st, k) == st[k]
SetItem(st, k, v) == [st EXCEPT ![k] = Str(JSString(v))]
RemoveItem(st, k) == [st EXCEPT ![k] = Null]

(***************************************************************************)
(* Session store                                                           *)
(***************************************************************************)
\* the initial state: token, user and isAuthenticated read from localStorage
CreateStore(st) ==
    LET tokenItem == GetItem(st, "token")
        userItem == GetItem(st, "user")
        text == IF Truthy(userItem) THEN userItem.v ELSE "null"
    IN  IF JSONparses(text)
        THEN [loaded |-> TRUE, token |-> tokenItem, user |-> JSONparse(text),
              isAuthenticated |-> Truthy(tokenItem)]
        ELSE [loaded |-> FALSE, token |-> Undefined, user |-> Undefined,
              isAuthenticated |-> FALSE]

\* mutant: the token is not written to storage
SaveSession_userOnly(st, tok, usr) == SetItem(st, "user", JSONstringify(usr))

\* localStorage.setItem('token', token); localStorage.setItem('user', JSON.stringify(user))
SaveSession(st, tok, usr) ==
    SetItem(SetItem(st, "token", tok), "user", JSONstringify(usr))

\* mutant: the user of the response is not kept
SessionState_anonymous(tok, usr) ==
    [token |-> tok, user |-> Null, isAuthenticated |-> TRUE]

\* set({ token, user, isAuthenticated: true })
SessionState(tok, usr) ==
    [token |-> tok, user |-> usr, isAuthenticated |-> TRUE]

\* mutant: logout leaves the user key in storage
ClearSession_tokenOnly(st) == RemoveItem(st, "token")

\* localStorage.removeItem('token'); localStorage.removeItem('user')
ClearSession(st) == RemoveItem(RemoveItem(st, "token"), "user")

\* set({ token: null, user: null, isAuthenticated: false })
LoggedOutState == [token |-> Null, user |-> Null, isAuthenticated |-> FALSE]

\* `Bearer ${access_token}`
BearerHeader(tok) == Str("Bearer " \o JSString(tok))

\* the Authorization header a request is sent with: the one of its config when it
\* has one, else the default of the shared client; Null when there is none
AuthorizationSent(config, default) == IF config # Undefined THEN config ELSE default

\* the message of the error axios rejects with
AxiosErrorMessage(f) ==
    IF f = "network" THEN "Network Error"
    ELSE "Request failed with status code " \o f

\* the message of the error a failed login or register rejects with
RejectionMessage(variant, op, f) ==
    IF variant = "token"
    THEN (IF op = "login" THEN "Invalid credentials" ELSE "Registration failed")
    ELSE AxiosErrorMessage(f)

Call(op, phase, tok) == [op |-> op, phase |-> phase, tok |-> tok]
Add(b, c) == b (+) SetToBag({c})
Remove(b, c) == b (-) SetToBag({c})
Settled(op, outcome, message) == [op |-> op, outcome |-> outcome, message |-> message]

\* a call equal to c settles: it is one of those in flight at the last logout
\* (TRUE) or one made since (FALSE); equal calls are told apart by nothing else
StaleChoices(c) ==
    {s \in BOOLEAN : IF s THEN BagIn(c, staleCalls)
                      ELSE CopiesIn(c, pending) > CopiesIn(c, staleCalls)}

\* the calls in flight at the last logout, after the call c has settled
Retire(c, stale) == IF stale THEN Remove(staleCalls, c) ELSE staleCalls

\* the calls in flight at the last logout, after the call c has sent its next
\* request d
Advance(c, d, stale) == IF stale THEN Add(Remove(staleCalls, c), d) ELSE staleCalls

(***************************************************************************)
(* Router                                                                  *)
(***************************************************************************)
Paths == {"/", "/login", "/register", "/dashboard", "/documents", "/upload",
          "/documents/7"}

View(v, layout) == [kind |-> "view", view |-> v, to |-> "", layout |-> layout]
Redirect(p, layout) == [kind |-> "redirect", view |-> "", to |-> p, layout |-> layout]
NoMatch == [kind |-> "none", view |-> "", to |-> "", layout |-> FALSE]

\* Layout takes no props and renders <Outlet />: under a route without child routes
\* the outlet is empty, and the children the route element passes are never
\* rendered; no view is on screen
Layout(children) == [kind |-> "layout only", view |-> "", to |-> "", layout |-> TRUE]

\* ProtectedRoute: isAuthenticated ? children : <Navigate to="/login" />
ProtectedRoute(auth, children) == IF auth THEN children ELSE Redirect("/login", FALSE)

\* App.tsx: every protected view is wrapped in ProtectedRoute and in Layout
GuardRoutes(p, auth) ==
    CASE p = "/login" -> View("Login", FALSE)
      [] p = "/register" -> View("Register", FALSE)
      [] p = "/" -> ProtectedRoute(auth, Layout(View("Dashboard", TRUE)))
      [] p = "/upload" -> ProtectedRoute(auth, Layout(View("Upload", TRUE)))
      [] p = "/documents" -> ProtectedRoute(auth, Layout(View("Documents", TRUE)))
      [] OTHER -> NoMatch

\* App.js: a ternary on isAuthenticated in every route element, under a Layout route
FlatRoutes(p, auth) ==
    CASE p = "/login" -> IF ~auth THEN View("Login", FALSE) ELSE Redirect("/dashboard", FALSE)
      [] p = "/register" -> IF ~auth THEN View("Register", FALSE) ELSE Redirect("/dashboard", FALSE)
      [] p = "/dashboard" -> IF auth THEN View("Dashboard", TRUE) ELSE Redirect("/login", TRUE)
      [] p = "/documents" -> IF auth THEN View("Documents", TRUE) ELSE Redirect("/login", TRUE)
      [] p = "/upload" -> IF auth THEN View("Upload", TRUE) ELSE Redirect("/login", TRUE)
      [] p = "/" -> Redirect("/dashboard", TRUE)
      [] OTHER -> NoMatch

\* Upload.tsx 204-230: the parent route "/" is guarded, the views are its children
NestedRoutes(p, auth) ==
    CASE p = "/login" -> IF ~auth THEN View("Login", FALSE) ELSE Redirect("/dashboard", FALSE)
      [] p = "/register" -> IF ~auth THEN View("Register", FALSE) ELSE Redirect("/dashboard", FALSE)
      [] p = "/" -> IF auth THEN Redirect("/dashboard", TRUE) ELSE Redirect("/login", FALSE)
      [] p = "/dashboard" -> IF auth THEN View("Dashboard", TRUE) ELSE Redirect("/login", FALSE)
      [] p = "/documents" -> IF auth THEN View("Documents", TRUE) ELSE Redirect("/login", FALSE)
      [] p = "/upload" -> IF auth THEN View("Upload", TRUE) ELSE Redirect("/login", FALSE)
      [] OTHER -> NoMatch

\* what <Routes> renders at path p; nothing is rendered when the store failed to load
RouteElement(r, p, auth, loaded) ==
    IF ~loaded THEN NoMatch
    ELSE CASE r = "guard" -> GuardRoutes(p, auth)
           [] r = "flat" -> FlatRoutes(p, auth)
           [] r = "nested" -> NestedRoutes(p, auth)

(***************************************************************************)
(* Upload page (pages/Upload.tsx): one task per dropped file.  A task is a *)
(* JavaScript object; file names the File handle it wraps and gen tells    *)
(* the objects created for that file apart (every { ...f } is a new one).  *)
(***************************************************************************)
Num(n) == [kind |-> "number", n |-> n]
NaN == [kind |-> "NaN", n |-> 0]
Infinity == [kind |-> "Infinity", n |-> 0]

ProgressEvents == {[loaded |-> l, total |-> t] : l \in {0, 1, 4, 5}, t \in {0, 4}}

\* progressEvent.loaded / (progressEvent.total || 0) * 100
Progress(ev) ==
    IF ev.total = 0 THEN (IF ev.loaded = 0 THEN NaN ELSE Infinity)
    ELSE Num((ev.loaded * 100) \div ev.total)

\* mutant: a dropped file starts as uploading
NewTask_uploading(n) ==
    [file |-> n, gen |-> 0, progress |-> Num(0), status |-> "uploading", error |-> Undefined]

\* no progress event has been handled yet
NoProgress == [file |-> 0, progress |-> NaN]

\* onDrop: { file, progress: 0, status: 'waiting' }
NewTask(n) ==
    [file |-> n, gen |-> 0, progress |-> Num(0), status |-> "waiting", error |-> Undefined]

\* mutant: tasks are compared by the File they wrap
SameObject_byFile(f, file) == f.file = file.file

\* f === file
SameObject(f, file) == f.file = file.file /\ f.gen = file.gen

\* { ...f, <patch> }: a new object with the fields of f, those of patch written over
Spread(f, patch) ==
    [k \in DOMAIN f |-> IF k = "gen" THEN f.gen + 1
                        ELSE IF k \in DOMAIN patch THEN patch[k] ELSE f[k]]

\* prev.map(f => f === file ? { ...f, <patch> } : f)
MapFiles(prev, file, patch) ==
    [i \in DOMAIN prev |-> IF SameObject(prev[i], file) THEN Spread(prev[i], patch)
                           ELSE prev[i]]

\* mutant: the upload is marked as processing at once
MarkUploading_processing == [status |-> "processing", progress |-> Num(0)]

\* status: 'uploading', progress: 0
MarkUploading == [status |-> "uploading", progress |-> Num(0)]

\* progress
WithProgress(p) == [progress |-> p]

\* status: 'processing', progress: 100
MarkProcessing == [status |-> "processing", progress |-> Num(100)]

\* status: 'complete'
MarkComplete == [status |-> "complete"]

\* status: 'error', error: 'Upload failed'
MarkError == [status |-> "error", error |-> Str("Upload failed")]


\* setFiles of a page that is no longer mounted changes nothing
SetFiles(next) == files' = IF uploadMounted THEN next ELSE files

UploadCall(file, phase) == [file |-> file.file, gen |-> file.gen, phase |-> phase]

\* onDrop(acceptedFiles) with k accepted files
OnDrop(k) ==
    /\ uploadMounted
    /\ nextFile + k <= MaxFiles
    /\ files' = files \o [i \in 1..k |-> NewTask(nextFile + i)]
    /\ nextFile' = nextFile + k
    /\ UNCHANGED <<uploadMounted, uploads, everUploading, lastProgress>>
    /\ UNCHANGED <<sessionVars, routeVars, docsVars, dashVars>>

\* the Upload button of task i (shown while it is waiting): uploadFile(file) marks
\* the task as uploading and sends POST /documents/upload
UploadFile(i) ==
    /\ uploadMounted
    /\ i \in DOMAIN files
    /\ files[i].status = "waiting"
    /\ files' = MapFiles(files, files[i], MarkUploading)
    /\ uploads' = uploads \cup {UploadCall(files[i], "post")}
    /\ everUploading' = everUploading \cup {files'[j].file : j \in
                            {j \in DOMAIN files' : files'[j].status = "uploading"}}
    /\ UNCHANGED <<uploadMounted, nextFile, lastProgress>>
    /\ UNCHANGED <<sessionVars, routeVars, docsVars, dashVars>>

\* onUploadProgress(progressEvent) of the request of u
UploadProgress(u, ev) ==
    /\ u \in uploads
    /\ u.phase = "post"
    /\ SetFiles(MapFiles(files, u, WithProgress(Progress(ev))))
    /\ lastProgress' = [file |-> u.file, progress |-> Progress(ev)]
    /\ UNCHANGED <<uploadMounted, uploads, nextFile, everUploading>>
    /\ UNCHANGED <<sessionVars, routeVars, docsVars, dashVars>>

\* the POST of u succeeded: the task is marked as processing and the delay starts
UploadResponse(u) ==
    /\ u \in uploads
    /\ u.phase = "post"
    /\ SetFiles(MapFiles(files, u, MarkProcessing))
    /\ uploads' = (uploads \ {u}) \cup {[u EXCEPT !.phase = "delay"]}
    /\ UNCHANGED <<uploadMounted, nextFile, everUploading, lastProgress>>
    /\ UNCHANGED <<sessionVars, routeVars, docsVars, dashVars>>

\* the POST of u failed: the catch block marks the task as failed
UploadFailure(u) ==
    /\ u \in uploads
    /\ u.phase = "post"
    /\ SetFiles(MapFiles(files, u, MarkError))
    /\ uploads' = uploads \ {u}
    /\ UNCHANGED <<uploadMounted, nextFile, everUploading, lastProgress>>
    /\ UNCHANGED <<sessionVars, routeVars, docsVars, dashVars>>

\* removeFile(file) for the task at i: prev.filter(f => f !== file)
RemoveFile(i) ==
    /\ uploadMounted
    /\ i \in DOMAIN files
    /\ files' = SelectSeq(files, LAMBDA f : ~SameObject(f, files[i]))
    /\ UNCHANGED <<uploadMounted, uploads, nextFile, everUploading, lastProgress>>
    /\ UNCHANGED <<sessionVars, routeVars, docsVars, dashVars>>

AllUploadCalls == {[file |-> n, gen |-> g, phase |-> ph] :
                       n \in 1..MaxFiles, g \in {0}, ph \in {"post", "delay"}}

(***************************************************************************)
(* Documents views: part_001 (re-fetches when the token changes) and       *)
(* part_002 (re-fetches when the search query or the category changes).    *)
(***************************************************************************)
Doc(id, category) == [id |-> id, category |-> category]

ServerLists == {<< >>, <<Doc("d1", "A")>>, <<Doc("d1", "A"), Doc("d2", "B"), Doc("d3", "A")>>}
Queries == {"", "invoice"}

\* a GET /documents awaiting its response: its Authorization header and its params
Fetch(auth, search, category) ==
    [authorization |-> auth, search |-> search, category |-> category]

\* no response is shown yet
NoFetch == Fetch(Null, "none", "none")

RECURSIVE UniqueFrom(_, _, _)
UniqueFrom(list, i, acc) ==
    IF i > Len(list) THEN acc
    ELSE UniqueFrom(list, i + 1,
                    IF \E j \in DOMAIN acc : acc[j] = list[i] THEN acc
                    ELSE Append(acc, list[i]))

\* Array.from(new Set(response.data.map(doc => doc.category)))
UniqueCategories(data) == UniqueFrom([i \in DOMAIN data |-> data[i].category], 1, << >>)

\* the effect of part_001 runs again when the token it depends on changes to t
DocsTokenEffect(d, t) ==
    IF d.variant = "token" /\ t # token
    THEN [d EXCEPT !.fetches = Add(@, Fetch(BearerHeader(t), "", ""))]
    ELSE d

\* the error state after a failed fetch: part_001 sets it, part_002 has none
FetchError(variant, e) ==
    IF variant = "token" THEN Str("Failed to fetch documents") ELSE e

\* the response of a GET /documents of the view
DocsResponse(f, data) ==
    /\ docsMounted
    /\ BagIn(f, fetches)
    /\ fetches' = Remove(fetches, f)
    /\ documents' = data
    /\ categories' = IF docsVariant = "search" THEN UniqueCategories(data) ELSE categories
    /\ docsLoading' = FALSE
    /\ docsLast' = "success"
    /\ shownFor' = f
    /\ UNCHANGED <<docsVariant, docsMounted, docsError, searchQuery, selectedCategory,
                   deletes, downloads>>
    /\ UNCHANGED <<sessionVars, routeVars, uploadVars, dashVars>>

\* a GET /documents of the view fails: the catch block of fetchDocuments
DocsFailure(f) ==
    /\ docsMounted
    /\ BagIn(f, fetches)
    /\ fetches' = Remove(fetches, f)
    /\ docsError' = FetchError(docsVariant, docsError)
    /\ docsLoading' = FALSE
    /\ docsLast' = "failure"
    /\ shownFor' = shownFor
    /\ UNCHANGED <<docsVariant, docsMounted, documents, searchQuery, selectedCategory,
                   categories, deletes, downloads>>
    /\ UNCHANGED <<sessionVars, routeVars, uploadVars, dashVars>>

\* part_002: the search input changes to q and the effect fetches again
SetSearchQuery(q) ==
    /\ docsMounted
    /\ docsVariant = "search"
    /\ ~docsLoading
    /\ q # searchQuery
    /\ BagCardinality(fetches) < MaxFetches
    /\ searchQuery' = q
    /\ fetches' = Add(fetches, Fetch(AuthorizationSent(Undefined, authHeader), q, selectedCategory))
    /\ UNCHANGED <<docsVariant, docsMounted, documents, docsLoading, docsError,
                   selectedCategory, categories, deletes, downloads, docsLast, shownFor>>
    /\ UNCHANGED <<sessionVars, routeVars, uploadVars, dashVars>>

\* part_002: the category select changes to c and the effect fetches again
SetSelectedCategory(c) ==
    /\ docsMounted
    /\ docsVariant = "search"
    /\ ~docsLoading
    /\ c = "" \/ \E i \in DOMAIN categories : categories[i] = c
    /\ c # selectedCategory
    /\ BagCardinality(fetches) < MaxFetches
    /\ selectedCategory' = c
    /\ fetches' = Add(fetches, Fetch(AuthorizationSent(Undefined, authHeader), searchQuery, c))
    /\ UNCHANGED <<docsVariant, docsMounted, documents, docsLoading, docsError, searchQuery,
                   categories, deletes, downloads, docsLast, shownFor>>
    /\ UNCHANGED <<sessionVars, routeVars, uploadVars, dashVars>>

\* a DELETE /documents/<id> awaiting its response, with the documents of the render
\* whose handleDelete sent it
Delete(id, list, auth) == [id |-> id, list |-> list, authorization |-> auth]

\* documents.filter(doc => doc.id !== documentId)
FilterOut(list, id) == SelectSeq(list, LAMBDA doc : doc.id # id)

DocumentIds == {"d1", "d2", "d3"}

\* part_001: the Delete button of the document id (shown when the list is); the user
\* answers the confirm dialog, and DELETE /documents/<id> is sent when confirmed
HandleDelete(id, confirmed) ==
    /\ docsMounted
    /\ docsVariant = "token"
    /\ ~docsLoading
    /\ ~Truthy(docsError)
    /\ \E i \in DOMAIN documents : documents[i].id = id
    /\ IF confirmed
       THEN /\ BagCardinality(deletes) < MaxFetches
            /\ deletes' = Add(deletes, Delete(id, documents, BearerHeader(token)))
            /\ docsLast' = "delete"
       ELSE /\ deletes' = deletes
            /\ docsLast' = "cancel"
    /\ shownFor' = shownFor
    /\ UNCHANGED <<docsVariant, docsMounted, documents, docsLoading, docsError, searchQuery,
                   selectedCategory, categories, fetches, downloads>>
    /\ UNCHANGED <<sessionVars, routeVars, uploadVars, dashVars>>

\* the server accepted the delete d: setDocuments(documents.filter(...)), on the
\* documents handleDelete captured
DeleteResponse(d) ==
    /\ docsMounted
    /\ BagIn(d, deletes)
    /\ deletes' = Remove(deletes, d)
    /\ documents' = FilterOut(d.list, d.id)
    /\ docsLast' = "deleted"
    /\ shownFor' = shownFor
    /\ UNCHANGED <<docsVariant, docsMounted, docsLoading, docsError, searchQuery,
                   selectedCategory, categories, fetches, downloads>>
    /\ UNCHANGED <<sessionVars, routeVars, uploadVars, dashVars>>

\* the server rejected the delete d: setError('Failed to delete document')
DeleteFailure(d) ==
    /\ docsMounted
    /\ BagIn(d, deletes)
    /\ deletes' = Remove(deletes, d)
    /\ docsError' = Str("Failed to delete document")
    /\ docsLast' = "delete failed"
    /\ shownFor' = shownFor
    /\ UNCHANGED <<docsVariant, docsMounted, documents, docsLoading, searchQuery,
                   selectedCategory, categories, fetches, downloads>>
    /\ UNCHANGED <<sessionVars, routeVars, uploadVars, dashVars>>

\* a GET /documents/<id>/download awaiting its response
Download(id, auth) == [id |-> id, authorization |-> auth]

\* part_001: the Download button of the document id (shown when the list is):
\* handleDownload sends GET /documents/<id>/download
HandleDownload(id) ==
    /\ docsMounted
    /\ docsVariant = "token"
    /\ ~docsLoading
    /\ ~Truthy(docsError)
    /\ \E i \in DOMAIN documents : documents[i].id = id
    /\ BagCardinality(downloads) < MaxFetches
    /\ downloads' = Add(downloads, Download(id, BearerHeader(token)))
    /\ UNCHANGED <<docsVariant, docsMounted, documents, docsLoading, docsError, searchQuery,
                   selectedCategory, categories, fetches, deletes, docsLast, shownFor>>
    /\ UNCHANGED <<sessionVars, routeVars, uploadVars, dashVars>>

\* the download d answered: the blob is saved through a temporary link, and no
\* state of the view changes
DownloadResponse(d) ==
    /\ docsMounted
    /\ BagIn(d, downloads)
    /\ downloads' = Remove(downloads, d)
    /\ UNCHANGED <<docsVariant, docsMounted, documents, docsLoading, docsError, searchQuery,
                   selectedCategory, categories, fetches, deletes, docsLast, shownFor>>
    /\ UNCHANGED <<sessionVars, routeVars, uploadVars, dashVars>>

\* the download d failed: setError('Failed to download document')
DownloadFailure(d) ==
    /\ docsMounted
    /\ BagIn(d, downloads)
    /\ downloads' = Remove(downloads, d)
    /\ docsError' = Str("Failed to download document")
    /\ docsLast' = "download failed"
    /\ UNCHANGED <<docsVariant, docsMounted, documents, docsLoading, searchQuery,
                   selectedCategory, categories, fetches, deletes, shownFor>>
    /\ UNCHANGED <<sessionVars, routeVars, uploadVars, dashVars>>

\* the lists a render of the view can show: a list of the server, with some removed
Removals(lists) == lists \cup {FilterOut(l, id) : l \in lists, id \in DocumentIds}
DocumentLists == Removals(Removals(Removals(ServerLists)))

AllDeletes == {Delete(id, l, BearerHeader(t)) :
                   id \in DocumentIds, l \in DocumentLists, t \in ResponseTokens}

AllFetches == {Fetch(h, q, c) : h \in {Null} \cup {BearerHeader(t) : t \in ResponseTokens},
                                q \in Queries, c \in {"", "A", "B"}}

(***************************************************************************)
(* Dashboard (components/Dashboard.tsx): statistics folded from the list.  *)
(***************************************************************************)
CategoryNames == {"A", "B", "constructor"}
ObjectPrototypeKeys == {"constructor", "toString", "valueOf", "hasOwnProperty"}
RecentCount == 5

CategoryLists == UNION {[1..n -> CategoryNames] : n \in 0..MaxDocs}

\* categories[key] on a plain object: an own property, a member inherited from
\* Object.prototype, or undefined
GetProperty(obj, key) ==
    IF key \in DOMAIN obj THEN obj[key]
    ELSE IF key \in ObjectPrototypeKeys
         THEN Function(IF key = "constructor" THEN "Object" ELSE key)
         ELSE Undefined

\* (x || 0) + 1
OrZeroPlusOne(x) ==
    LET y == IF Truthy(x) THEN x ELSE JSNum(0)
    IN  IF y.t = "number" THEN JSNum(y.n + 1) ELSE Str(JSString(y) \o "1")

\* categories[doc.category] = (categories[doc.category] || 0) + 1
CountDocument(obj, key) ==
    [k \in DOMAIN obj \cup {key} |->
        IF k = key THEN OrZeroPlusOne(GetProperty(obj, key)) ELSE obj[k]]

RECURSIVE CountFrom(_, _, _)
CountFrom(docs, i, obj) ==
    IF i > Len(docs) THEN obj
    ELSE CountFrom(docs, i + 1, CountDocument(obj, docs[i].category))

\* documents.forEach(doc => ...) starting from {}
CountCategories(docs) == CountFrom(docs, 1, [k \in {} |-> Undefined])

\* { total: documents.length, categories, recentUploads: documents.slice(0, 5) }
DocumentStats(docs) ==
    [total |-> Len(docs), categories |-> CountCategories(docs),
     recentUploads |-> SubSeq(docs, 1, IF RecentCount < Len(docs) THEN RecentCount ELSE Len(docs))]

\* the effect of the Dashboard runs again when the token it depends on changes to t
DashTokenEffect(d, t) ==
    IF t # token
    THEN [d EXCEPT !.fetches = Add(@, Fetch(BearerHeader(t), "", ""))]
    ELSE d

\* fetchStats: the response of GET /documents
StatsResponse(f, docs) ==
    /\ dashMounted
    /\ BagIn(f, dashFetches)
    /\ dashFetches' = Remove(dashFetches, f)
    /\ stats' = DocumentStats(docs)
    /\ dashLoading' = FALSE
    /\ dashLast' = docs
    /\ UNCHANGED <<dashMounted, boardVars>>
    /\ UNCHANGED <<sessionVars, routeVars, uploadVars, docsVars>>

\* fetchStats: GET /documents failed; the error is logged
StatsFailure(f) ==
    /\ dashMounted
    /\ BagIn(f, dashFetches)
    /\ dashFetches' = Remove(dashFetches, f)
    /\ dashLoading' = FALSE
    /\ UNCHANGED <<dashMounted, stats, dashLast, boardVars>>
    /\ UNCHANGED <<sessionVars, routeVars, uploadVars, docsVars>>

(***************************************************************************)
(* Dashboard (pages/Dashboard.tsx): stats and recent documents, loaded      *)
(* together with Promise.all.                                              *)
(***************************************************************************)
\* useState: { totalDocuments: 0, ... }, [], true
ZeroStats == [totalDocuments |-> 0]
NewBoard(mounted) ==
    [mounted |-> mounted, stats |-> ZeroStats, recentDocuments |-> << >>, loading |-> TRUE]

StatsData == {[totalDocuments |-> 1], [totalDocuments |-> 2]}
RecentLists == {<< >>, <<Doc("d1", "A")>>}

\* the state of one of the two promises given to Promise.all
Pending(v) == [t |-> "pending", v |-> v]
Fulfilled(v) == [t |-> "fulfilled", v |-> v]
Rejected(v) == [t |-> "rejected", v |-> v]

\* a fetchDashboardData call: its two requests, and whether the view that made it
\* is still the mounted one
Load(st, rc, live) == [stats |-> st, recent |-> rc, live |-> live]

\* the calls of a view that is unmounted: their state updates reach no view
Detach(loads) ==
    [m \in {[l EXCEPT !.live = FALSE] : l \in BagToSet(loads)} |->
        CopiesIn(m, loads) + CopiesIn([m EXCEPT !.live = TRUE], loads)]

\* mutant: without the finally block, loading ends only when both requests succeeded
BoardAfter_noFinally(b, st, rc) ==
    IF st.t = "fulfilled" /\ rc.t = "fulfilled"
    THEN [b EXCEPT !.stats = st.v, !.recentDocuments = rc.v, !.loading = FALSE]
    ELSE b

\* mutant: the stats are taken from their response whatever the other request did
BoardAfter_partial(b, st, rc) ==
    IF st.t = "fulfilled"
    THEN [b EXCEPT !.stats = st.v,
                   !.recentDocuments = IF rc.t = "fulfilled" THEN rc.v ELSE @,
                   !.loading = FALSE]
    ELSE [b EXCEPT !.loading = FALSE]

\* the view once Promise.all has settled: both responses are stored when both
\* requests succeeded, none when one failed; loading ends in either case
BoardAfter(b, st, rc) ==
    IF st.t = "fulfilled" /\ rc.t = "fulfilled"
    THEN [b EXCEPT !.stats = st.v, !.recentDocuments = rc.v, !.loading = FALSE]
    ELSE [b EXCEPT !.loading = FALSE]

\* Promise.all has settled: a request was rejected, or both are fulfilled
AllSettled(l) ==
    \/ l.stats.t = "rejected"
    \/ l.recent.t = "rejected"
    \/ l.stats.t = "fulfilled" /\ l.recent.t = "fulfilled"

\* one request of the call l has settled and the call is now m
LoadStep(l, m) ==
    /\ BagIn(l, boardLoads)
    /\ boardLoads' = IF AllSettled(m) THEN Remove(boardLoads, l)
                     ELSE Add(Remove(boardLoads, l), m)
    /\ board' = IF AllSettled(m) /\ l.live THEN BoardAfter(board, m.stats, m.recent)
                ELSE board
    /\ UNCHANGED <<dashMounted, stats, dashLoading, dashFetches, dashLast>>
    /\ UNCHANGED <<singleMounted, single, singlePosts>>
    /\ UNCHANGED <<sessionVars, routeVars, uploadVars, docsVars>>

\* GET /dashboard/stats of the call l answers with data
BoardStatsResponse(l, data) ==
    /\ l.stats.t = "pending"
    /\ LoadStep(l, [l EXCEPT !.stats = Fulfilled(data)])

\* GET /dashboard/recent-documents of the call l answers with data
BoardRecentResponse(l, data) ==
    /\ l.recent.t = "pending"
    /\ LoadStep(l, [l EXCEPT !.recent = Fulfilled(data)])

\* GET /dashboard/stats of the call l fails
BoardStatsFailure(l) ==
    /\ l.stats.t = "pending"
    /\ LoadStep(l, [l EXCEPT !.stats = Rejected(l.stats.v)])

\* GET /dashboard/recent-documents of the call l fails
BoardRecentFailure(l) ==
    /\ l.recent.t = "pending"
    /\ LoadStep(l, [l EXCEPT !.recent = Rejected(l.recent.v)])

AllLoads == {Load(st, rc, live) :
                st \in {Pending(ZeroStats)} \cup {Fulfilled(d) : d \in StatsData},
                rc \in {Pending(<< >>)} \cup {Fulfilled(d) : d \in RecentLists},
                live \in BOOLEAN}

(***************************************************************************)
(* Upload view of part_001: one state { uploading, error, success } for    *)
(* the whole view.                                                         *)
(***************************************************************************)
UploadState(uploading, error, success) ==
    [uploading |-> uploading, error |-> error, success |-> success]

\* a POST /documents/upload of the view awaiting its response
Post(auth) == [authorization |-> auth]

\* onDrop(acceptedFiles): the view is marked as uploading and the file is posted
SingleDrop ==
    /\ singleMounted
    /\ BagCardinality(singlePosts) < MaxFetches
    /\ single' = UploadState(TRUE, Null, FALSE)
    /\ singlePosts' = Add(singlePosts, Post(BearerHeader(token)))
    /\ UNCHANGED <<dashMounted, stats, dashLoading, dashFetches, dashLast, board,
                   boardLoads, singleMounted>>
    /\ UNCHANGED <<sessionVars, routeVars, uploadVars, docsVars>>

\* the POST p of the view succeeded
SinglePostResponse(p) ==
    /\ singleMounted
    /\ BagIn(p, singlePosts)
    /\ singlePosts' = Remove(singlePosts, p)
    /\ single' = UploadState(FALSE, Null, TRUE)
    /\ UNCHANGED <<dashMounted, stats, dashLoading, dashFetches, dashLast, board,
                   boardLoads, singleMounted>>
    /\ UNCHANGED <<sessionVars, routeVars, uploadVars, docsVars>>

\* the POST p of the view failed
SinglePostFailure(p) ==
    /\ singleMounted
    /\ BagIn(p, singlePosts)
    /\ singlePosts' = Remove(singlePosts, p)
    /\ single' = UploadState(FALSE, Str("Failed to upload document. Please try again."), FALSE)
    /\ UNCHANGED <<dashMounted, stats, dashLoading, dashFetches, dashLast, board,
                   boardLoads, singleMounted>>
    /\ UNCHANGED <<sessionVars, routeVars, uploadVars, docsVars>>

AllPosts == {Post(BearerHeader(t)) : t \in ResponseTokens \cup {Null}}

(***************************************************************************)
(* The views on screen.  A render mounts the view of the route element and  *)
(* unmounts the others; a view that mounts sends its first requests.       *)
(***************************************************************************)
\* the component a screen shows: App.js takes its views from components/ and the
\* App of Upload.tsx from pages/; App.tsx never has a view on screen
Component(r, scr) ==
    IF scr.kind = "view" /\ scr.view \in {"Dashboard", "Documents", "Upload"}
    THEN (IF r = "flat" THEN "components/" ELSE "pages/") \o scr.view
    ELSE "none"

\* the views and the requests they await, as one record
ViewsNow ==
    [upload |-> [mounted |-> uploadMounted, files |-> files, uploads |-> uploads,
                 nextFile |-> nextFile, everUploading |-> everUploading,
                 lastProgress |-> lastProgress],
     docs |-> [variant |-> docsVariant, mounted |-> docsMounted, documents |-> documents,
               loading |-> docsLoading, error |-> docsError, searchQuery |-> searchQuery,
               selectedCategory |-> selectedCategory, categories |-> categories,
               fetches |-> fetches, deletes |-> deletes, downloads |-> downloads,
               last |-> docsLast, shownFor |-> shownFor],
     dash |-> [mounted |-> dashMounted, stats |-> stats, loading |-> dashLoading,
               fetches |-> dashFetches, last |-> dashLast],
     board |-> board,
     boardLoads |-> boardLoads,
     single |-> [mounted |-> singleMounted, state |-> single, posts |-> singlePosts]]

\* a page that was just loaded: no view is mounted and no request is in flight
NoViews ==
    [upload |-> [mounted |-> FALSE, files |-> << >>, uploads |-> {}, nextFile |-> 0,
                 everUploading |-> {}, lastProgress |-> NoProgress],
     docs |-> [variant |-> "token", mounted |-> FALSE, documents |-> << >>,
               loading |-> TRUE, error |-> Null, searchQuery |-> "",
               selectedCategory |-> "", categories |-> << >>, fetches |-> EmptyBag,
               deletes |-> EmptyBag, downloads |-> EmptyBag, last |-> "mount",
               shownFor |-> NoFetch],
     dash |-> [mounted |-> FALSE, stats |-> Null, loading |-> TRUE, fetches |-> EmptyBag,
               last |-> << >>],
     board |-> NewBoard(FALSE),
     boardLoads |-> EmptyBag,
     single |-> [mounted |-> FALSE, state |-> UploadState(FALSE, Null, FALSE),
                 posts |-> EmptyBag]]

\* the GET /documents a Documents view sends when it mounts: part_001 gives it the
\* header `Bearer ${token}`, part_002 gives it none
FirstFetch(variant, tok, default) ==
    Fetch(AuthorizationSent(IF variant = "token" THEN BearerHeader(tok) ELSE Undefined,
                            default), "", "")

\* the views after a render of scr with the token tok and the default header of the
\* shared client, from the views v: a view that stays on screen keeps its state (and
\* runs the effects that depend on the token), a view that comes on screen starts
\* from its initial state and sends its first requests, the others are unmounted
\* and their state is discarded (the task list of the Upload page with them);
\* what an unmounted view still awaits is handled by no view
Shown(r, scr, tok, default, v) ==
    LET c == Component(r, scr)
    IN  [upload |-> IF c # "pages/Upload"
                    THEN [v.upload EXCEPT !.mounted = FALSE, !.files = << >>]
                    ELSE IF v.upload.mounted THEN v.upload
                    ELSE [v.upload EXCEPT !.mounted = TRUE, !.files = << >>],
         docs |-> IF c \notin {"components/Documents", "pages/Documents"}
                  THEN [v.docs EXCEPT !.mounted = FALSE]
                  ELSE IF v.docs.mounted THEN DocsTokenEffect(v.docs, tok)
                  ELSE LET variant == IF c = "components/Documents" THEN "token"
                                      ELSE "search"
                       IN  [NoViews.docs EXCEPT
                               !.variant = variant, !.mounted = TRUE,
                               !.fetches = SetToBag({FirstFetch(variant, tok, default)})],
         dash |-> IF c # "components/Dashboard" THEN [v.dash EXCEPT !.mounted = FALSE]
                  ELSE IF v.dash.mounted THEN DashTokenEffect(v.dash, tok)
                  ELSE [NoViews.dash EXCEPT
                           !.mounted = TRUE,
                           !.fetches = SetToBag({Fetch(BearerHeader(tok), "", "")})],
         board |-> IF c # "pages/Dashboard" THEN [v.board EXCEPT !.mounted = FALSE]
                   ELSE IF v.board.mounted THEN v.board
                   ELSE NewBoard(TRUE),
         boardLoads |-> IF c # "pages/Dashboard" THEN Detach(v.boardLoads)
                        ELSE IF v.board.mounted THEN v.boardLoads
                        ELSE Add(v.boardLoads, Load(Pending(ZeroStats), Pending(<< >>), TRUE)),
         single |-> IF c # "components/Upload"
                    THEN [v.single EXCEPT !.mounted = FALSE, !.posts = EmptyBag]
                    ELSE IF v.single.mounted THEN v.single
                    ELSE [NoViews.single EXCEPT !.mounted = TRUE]]

\* the views become v; the requests in flight stay within the bound
SetViews(v) ==
    /\ BagCardinality(v.docs.fetches) <= MaxFetches
    /\ BagCardinality(v.dash.fetches) <= MaxFetches
    /\ BagCardinality(v.boardLoads) <= MaxFetches
    /\ uploadMounted' = v.upload.mounted
    /\ files' = v.upload.files
    /\ uploads' = v.upload.uploads
    /\ nextFile' = v.upload.nextFile
    /\ everUploading' = v.upload.everUploading
    /\ lastProgress' = v.upload.lastProgress
    /\ docsVariant' = v.docs.variant
    /\ docsMounted' = v.docs.mounted
    /\ documents' = v.docs.documents
    /\ docsLoading' = v.docs.loading
    /\ docsError' = v.docs.error
    /\ searchQuery' = v.docs.searchQuery
    /\ selectedCategory' = v.docs.selectedCategory
    /\ categories' = v.docs.categories
    /\ fetches' = v.docs.fetches
    /\ deletes' = v.docs.deletes
    /\ downloads' = v.docs.downloads
    /\ docsLast' = v.docs.last
    /\ shownFor' = v.docs.shownFor
    /\ dashMounted' = v.dash.mounted
    /\ stats' = v.dash.stats
    /\ dashLoading' = v.dash.loading
    /\ dashFetches' = v.dash.fetches
    /\ dashLast' = v.dash.last
    /\ board' = v.board
    /\ boardLoads' = v.boardLoads
    /\ singleMounted' = v.single.mounted
    /\ single' = v.single.state
    /\ singlePosts' = v.single.posts

(***************************************************************************)
(* Initial states: a first visit (empty storage) or a visit that finds the *)
(* session an earlier page load saved.                                     *)
(***************************************************************************)
SavedSessions ==
    {EmptyStorage, SaveSession(EmptyStorage, Str("t1"), Obj("alice"))}

Rendered(p, auth, loaded) == RouteElement(router, p, auth, loaded)

InitSession(variants) ==
    /\ storeVariant \in variants
    /\ storage \in SavedSessions
    /\ storeLoaded = CreateStore(storage).loaded
    /\ token = CreateStore(storage).token
    /\ user = CreateStore(storage).user
    /\ isAuthenticated = CreateStore(storage).isAuthenticated
    /\ authHeader = Null
    /\ pending = EmptyBag
    /\ lastResult = Settled("create", "resolved", "")
    /\ staleCalls = EmptyBag

InitRoutes(routers, paths) ==
    /\ router \in routers
    /\ path \in paths
    /\ screen = RouteElement(router, path, isAuthenticated, storeLoaded)

\* the views of the first render of a page
InitViews(v) ==
    /\ uploadMounted = v.upload.mounted
    /\ files = v.upload.files
    /\ uploads = v.upload.uploads
    /\ nextFile = v.upload.nextFile
    /\ everUploading = v.upload.everUploading
    /\ lastProgress = v.upload.lastProgress
    /\ docsVariant = v.docs.variant
    /\ docsMounted = v.docs.mounted
    /\ documents = v.docs.documents
    /\ docsLoading = v.docs.loading
    /\ docsError = v.docs.error
    /\ searchQuery = v.docs.searchQuery
    /\ selectedCategory = v.docs.selectedCategory
    /\ categories = v.docs.categories
    /\ fetches = v.docs.fetches
    /\ deletes = v.docs.deletes
    /\ downloads = v.docs.downloads
    /\ docsLast = v.docs.last
    /\ shownFor = v.docs.shownFor
    /\ dashMounted = v.dash.mounted
    /\ stats = v.dash.stats
    /\ dashLoading = v.dash.loading
    /\ dashFetches = v.dash.fetches
    /\ dashLast = v.dash.last
    /\ board = v.board
    /\ boardLoads = v.boardLoads
    /\ singleMounted = v.single.mounted
    /\ single = v.single.state
    /\ singlePosts = v.single.posts

\* the application is loaded at one of paths, under one of the routers and one of
\* the session stores: the store is created from storage and the first render
\* mounts the view of the route
InitApp(variants, routers, paths) ==
    /\ InitSession(variants)
    /\ InitRoutes(routers, paths)
    /\ InitViews(Shown(router, screen, token, authHeader, NoViews))

(***************************************************************************)
(* Session store operations                                                *)
(***************************************************************************)
\* login(): the POST /auth/login request is sent
LoginCall ==
    /\ storeLoaded
    /\ BagCardinality(pending) < MaxCalls
    /\ pending' = Add(pending, Call("login", "post", Undefined))
    /\ UNCHANGED <<storeVariant, storage, storeLoaded, token, user, isAuthenticated,
                   authHeader, lastResult, staleCalls>>
    /\ UNCHANGED <<routeVars, viewVars>>

\* register(): the POST /auth/register request is sent
RegisterCall ==
    /\ storeLoaded
    /\ BagCardinality(pending) < MaxCalls
    /\ pending' = Add(pending, Call("register", "create", Undefined))
    /\ UNCHANGED <<storeVariant, storage, storeLoaded, token, user, isAuthenticated,
                   authHeader, lastResult, staleCalls>>
    /\ UNCHANGED <<routeVars, viewVars>>

\* the session a successful login or register stores, in storage and in memory
Authenticate(c, stale, tok, usr) ==
    /\ storage' = SaveSession(storage, tok, usr)
    /\ token' = SessionState(tok, usr).token
    /\ user' = SessionState(tok, usr).user
    /\ isAuthenticated' = SessionState(tok, usr).isAuthenticated
    /\ pending' = Remove(pending, c)
    /\ staleCalls' = Retire(c, stale)
    /\ lastResult' = Settled(c.op, "resolved", "")
    /\ screen' = Rendered(path, isAuthenticated', storeLoaded)
    /\ SetViews(Shown(router, screen', tok, authHeader, ViewsNow))
    /\ UNCHANGED <<storeVariant, storeLoaded, router, path>>

\* authStore.ts login: the response { token, user } of POST /auth/login
LoginResponse(tok, usr) ==
    LET c == Call("login", "post", Undefined)
    IN  /\ storeVariant = "token"
        /\ BagIn(c, pending)
        /\ \E stale \in StaleChoices(c) : Authenticate(c, stale, tok, usr)
        /\ UNCHANGED authHeader

\* authStore.ts register: the response { token, user } of POST /auth/register
RegisterResponse(tok, usr) ==
    LET c == Call("register", "create", Undefined)
    IN  /\ storeVariant = "token"
        /\ BagIn(c, pending)
        /\ \E stale \in StaleChoices(c) : Authenticate(c, stale, tok, usr)
        /\ UNCHANGED authHeader

\* App.tsx register: POST /auth/register succeeded, login() is called
RegisterCreated ==
    LET c == Call("register", "create", Undefined)
    IN  /\ storeVariant = "access_token"
        /\ BagIn(c, pending)
        /\ pending' = Add(Remove(pending, c), Call("register", "post", Undefined))
        /\ \E stale \in StaleChoices(c) :
               staleCalls' = Advance(c, Call("register", "post", Undefined), stale)
        /\ UNCHANGED <<storeVariant, storage, storeLoaded, token, user, isAuthenticated,
                       authHeader, lastResult>>
        /\ UNCHANGED <<routeVars, viewVars>>

\* App.tsx login: the response { access_token } of POST /auth/login; the default
\* header is set and GET /auth/me is sent
LoginTokenResponse(op, tok) ==
    LET c == Call(op, "post", Undefined)
    IN  /\ storeVariant = "access_token"
        /\ BagIn(c, pending)
        /\ authHeader' = BearerHeader(tok)
        /\ pending' = Add(Remove(pending, c), Call(op, "me", tok))
        /\ \E stale \in StaleChoices(c) :
               staleCalls' = Advance(c, Call(op, "me", tok), stale)
        /\ UNCHANGED <<storeVariant, storage, storeLoaded, token, user, isAuthenticated,
                       lastResult>>
        /\ UNCHANGED <<routeVars, viewVars>>

\* App.tsx login: the response of GET /auth/me
LoginUserResponse(op, tok, usr) ==
    LET c == Call(op, "me", tok)
    IN  /\ storeVariant = "access_token"
        /\ BagIn(c, pending)
        /\ \E stale \in StaleChoices(c) : Authenticate(c, stale, tok, usr)
        /\ UNCHANGED authHeader

\* a request of the call c fails with f: the catch block rejects the call
CallFailure(c, f) ==
    /\ BagIn(c, pending)
    /\ pending' = Remove(pending, c)
    /\ \E stale \in StaleChoices(c) : staleCalls' = Retire(c, stale)
    /\ lastResult' = Settled(c.op, "rejected", RejectionMessage(storeVariant, c.op, f))
    /\ UNCHANGED <<storeVariant, storage, storeLoaded, token, user, isAuthenticated,
                   authHeader>>
    /\ UNCHANGED <<routeVars, viewVars>>

\* the header left by logout(): App.tsx deletes the default Authorization header
LogoutHeader(variant, h) == IF variant = "access_token" THEN Null ELSE h

\* what logout() does to the session
ClearStore ==
    /\ storage' = ClearSession(storage)
    /\ token' = LoggedOutState.token
    /\ user' = LoggedOutState.user
    /\ isAuthenticated' = LoggedOutState.isAuthenticated
    /\ authHeader' = LogoutHeader(storeVariant, authHeader)
    /\ lastResult' = Settled("logout", "resolved", "")
    /\ staleCalls' = pending
    /\ UNCHANGED <<storeVariant, storeLoaded, pending>>

\* logout()
Logout ==
    /\ storeLoaded
    /\ ClearStore
    /\ screen' = Rendered(path, isAuthenticated', storeLoaded)
    /\ SetViews(Shown(router, screen', token', authHeader', ViewsNow))
    /\ UNCHANGED <<router, path>>

\* the page is loaded again: the store is created from storage, the views, the
\* requests in flight and the axios defaults of the old page are gone, and the first
\* render mounts the view of the route
Reload ==
    /\ storeLoaded' = CreateStore(storage).loaded
    /\ token' = CreateStore(storage).token
    /\ user' = CreateStore(storage).user
    /\ isAuthenticated' = CreateStore(storage).isAuthenticated
    /\ authHeader' = Null
    /\ pending' = EmptyBag
    /\ staleCalls' = EmptyBag
    /\ lastResult' = Settled("create", IF storeLoaded' THEN "resolved" ELSE "rejected", "")
    /\ screen' = Rendered(path, isAuthenticated', storeLoaded')
    /\ SetViews(Shown(router, screen', token', authHeader', NoViews))
    /\ UNCHANGED <<storeVariant, storage, router, path>>

PendingCalls == {Call(op, ph, tok) : op \in {"login", "register"},
                                     ph \in {"create", "post", "me"},
                                     tok \in ResponseTokens \cup {Undefined}}

(***************************************************************************)
(* Navigation                                                              *)
(***************************************************************************)
\* a link or the address bar takes the user to p: the route element of p is rendered
Navigate(p) ==
    /\ path' = p
    /\ screen' = Rendered(p, isAuthenticated, storeLoaded)
    /\ IF p = path THEN UNCHANGED viewVars
       ELSE SetViews(Shown(router, screen', token, authHeader, ViewsNow))
    /\ UNCHANGED router
    /\ UNCHANGED sessionVars

\* a rendered <Navigate to=...> replaces the location
FollowRedirect ==
    /\ screen.kind = "redirect"
    /\ path' = screen.to
    /\ screen' = Rendered(path', isAuthenticated, storeLoaded)
    /\ SetViews(Shown(router, screen', token, authHeader, ViewsNow))
    /\ UNCHANGED router
    /\ UNCHANGED sessionVars

\* Layout.handleLogout: logout(); navigate('/login')
HandleLogout ==
    /\ storeLoaded
    /\ screen.layout
    /\ ClearStore
    /\ path' = "/login"
    /\ screen' = Rendered(path', isAuthenticated', storeLoaded)
    /\ SetViews(Shown(router, screen', token', authHeader', ViewsNow))
    /\ UNCHANGED router

\* the delay of the upload u is over: the task is marked as complete and uploadFile
\* navigates to /documents/<document_id>; the render at the new path unmounts the
\* Upload page, and the list with every task in it is discarded in the same step
ProcessingDone(u) ==
    /\ u \in uploads
    /\ u.phase = "delay"
    /\ path' = "/documents/7"
    /\ screen' = Rendered(path', isAuthenticated, storeLoaded)
    /\ SetViews(Shown(router, screen', token, authHeader,
                      [ViewsNow EXCEPT
                          !.upload.files = IF uploadMounted
                                           THEN MapFiles(files, u, MarkComplete)
                                           ELSE files,
                          !.upload.uploads = uploads \ {u}]))
    /\ UNCHANGED router
    /\ UNCHANGED sessionVars

(***************************************************************************)
(* Specifications                                                          *)
(***************************************************************************)
Init == InitApp({"token", "access_token"}, {"guard"}, {"/login"})

Next ==
    \/ LoginCall
    \/ RegisterCall
    \/ \E tok \in ResponseTokens, usr \in ResponseUsers : LoginResponse(tok, usr)
    \/ \E tok \in ResponseTokens, usr \in ResponseUsers : RegisterResponse(tok, usr)
    \/ RegisterCreated
    \/ \E op \in {"login", "register"}, tok \in ResponseTokens : LoginTokenResponse(op, tok)
    \/ \E op \in {"login", "register"}, tok \in ResponseTokens, usr \in ResponseUsers :
           LoginUserResponse(op, tok, usr)
    \/ \E c \in PendingCalls, f \in Failures : CallFailure(c, f)
    \/ Logout
    \/ Reload

vars == <<sessionVars, routeVars, viewVars>>

Spec == Init /\ [][Next]_vars

\* the router, all three variants, over the authStore.ts session store
InitRouting == InitApp({"token"}, {"guard", "flat", "nested"}, {"/"})

NextRouting ==
    \/ \E p \in Paths : Navigate(p)
    \/ FollowRedirect
    \/ HandleLogout
    \/ LoginCall
    \/ \E tok \in {Str("t1"), Str("t2")} : LoginResponse(tok, Obj("alice"))
    \/ \E c \in PendingCalls : CallFailure(c, "401")
    \/ Logout
    \/ Reload

SpecRouting == InitRouting /\ [][NextRouting]_vars

\* the Upload page of pages/, in an authenticated session; the user comes back to
\* /upload after the navigation that follows an upload
InitUpload ==
    /\ InitApp({"token"}, {"nested"}, {"/upload"})
    /\ isAuthenticated

NextUpload ==
    \/ \E k \in 1..2 : OnDrop(k)
    \/ \E i \in 1..MaxFiles : UploadFile(i)
    \/ \E u \in AllUploadCalls, ev \in ProgressEvents : UploadProgress(u, ev)
    \/ \E u \in AllUploadCalls : UploadResponse(u)
    \/ \E u \in AllUploadCalls : ProcessingDone(u)
    \/ \E u \in AllUploadCalls : UploadFailure(u)
    \/ \E i \in 1..MaxFiles : RemoveFile(i)
    \/ \E p \in {"/upload"} : Navigate(p)

SpecUpload == InitUpload /\ [][NextUpload]_vars

\* the Documents views, in an authenticated session: the view of part_001 under
\* App.js, the view of part_002 under the App of Upload.tsx
InitDocs ==
    /\ InitApp({"token"}, {"flat", "nested"}, {"/documents"})
    /\ isAuthenticated

NextDocs ==
    \/ \E f \in AllFetches, data \in ServerLists : DocsResponse(f, data)
    \/ \E f \in AllFetches : DocsFailure(f)
    \/ \E q \in Queries : SetSearchQuery(q)
    \/ \E c \in {"", "A", "B"} : SetSelectedCategory(c)
    \/ LoginCall
    \/ \E tok \in ResponseTokens, usr \in ResponseUsers : LoginResponse(tok, usr)

SpecDocs == InitDocs /\ [][NextDocs]_vars

\* the buttons of the Documents view of part_001, in an authenticated session
InitDelete ==
    /\ InitApp({"token"}, {"flat"}, {"/documents"})
    /\ isAuthenticated

NextDelete ==
    \/ \E f \in AllFetches, data \in ServerLists : DocsResponse(f, data)
    \/ \E f \in AllFetches : DocsFailure(f)
    \/ \E id \in DocumentIds, confirmed \in BOOLEAN : HandleDelete(id, confirmed)
    \/ \E d \in AllDeletes : DeleteResponse(d)
    \/ \E d \in AllDeletes : DeleteFailure(d)
    \/ \E id \in DocumentIds : HandleDownload(id)
    \/ \E id \in DocumentIds, t \in ResponseTokens :
           DownloadResponse(Download(id, BearerHeader(t)))
    \/ \E id \in DocumentIds, t \in ResponseTokens :
           DownloadFailure(Download(id, BearerHeader(t)))

SpecDelete == InitDelete /\ [][NextDelete]_vars

\* the searchable Documents view of part_002, in an authenticated session
InitSearch ==
    /\ InitApp({"token"}, {"nested"}, {"/documents"})
    /\ isAuthenticated

NextSearch ==
    \/ \E f \in AllFetches, data \in ServerLists : DocsResponse(f, data)
    \/ \E f \in AllFetches : DocsFailure(f)
    \/ \E q \in Queries : SetSearchQuery(q)
    \/ \E c \in {"", "A", "B"} : SetSelectedCategory(c)

SpecSearch == InitSearch /\ [][NextSearch]_vars

\* the Dashboard of pages/Dashboard.tsx, in an authenticated session
InitBoard ==
    /\ InitApp({"token"}, {"nested"}, {"/dashboard"})
    /\ isAuthenticated

NextBoard ==
    \/ \E p \in Paths : Navigate(p)
    \/ FollowRedirect
    \/ \E l \in AllLoads, data \in StatsData : BoardStatsResponse(l, data)
    \/ \E l \in AllLoads, data \in RecentLists : BoardRecentResponse(l, data)
    \/ \E l \in AllLoads : BoardStatsFailure(l)
    \/ \E l \in AllLoads : BoardRecentFailure(l)

SpecBoard == InitBoard /\ [][NextBoard]_vars

\* the single-file Upload view of part_001, in an authenticated session
InitSingle ==
    /\ InitApp({"token"}, {"flat"}, {"/upload"})
    /\ isAuthenticated

NextSingle ==
    \/ SingleDrop
    \/ \E p \in AllPosts : SinglePostResponse(p)
    \/ \E p \in AllPosts : SinglePostFailure(p)
    \/ LoginCall
    \/ \E tok \in ResponseTokens, usr \in ResponseUsers : LoginResponse(tok, usr)
    \/ \E c \in PendingCalls, f \in Failures : CallFailure(c, f)

SpecSingle == InitSingle /\ [][NextSingle]_vars

\* the views that fetch when they mount, in an authenticated session: the page is
\* loaded at /documents or at /dashboard, under App.js or the App of Upload.tsx
InitLoading ==
    /\ InitApp({"token"}, {"flat", "nested"}, {"/documents", "/dashboard"})
    /\ isAuthenticated

\* a request of the mounted Documents view settles
SettleDocs ==
    \/ \E f \in AllFetches, data \in ServerLists : DocsResponse(f, data)
    \/ \E f \in AllFetches : DocsFailure(f)

\* a request of the mounted Dashboard of components/ settles
SettleStats ==
    \/ \E f \in AllFetches, docs \in ServerLists : StatsResponse(f, docs)
    \/ \E f \in AllFetches : StatsFailure(f)

\* a request of a fetchDashboardData call settles
SettleBoard ==
    \/ \E l \in AllLoads, data \in StatsData : BoardStatsResponse(l, data)
    \/ \E l \in AllLoads, data \in RecentLists : BoardRecentResponse(l, data)
    \/ \E l \in AllLoads : BoardStatsFailure(l)
    \/ \E l \in AllLoads : BoardRecentFailure(l)

NextLoading ==
    \/ SettleDocs
    \/ SettleStats
    \/ SettleBoard
    \/ \E q \in Queries : SetSearchQuery(q)
    \/ \E c \in {"", "A", "B"} : SetSelectedCategory(c)
    \/ LoginCall
    \/ \E tok \in {Str("t1"), Str("t2")} : LoginResponse(tok, Obj("alice"))

\* every request that was sent settles: the server answers or the request fails
SpecLoading ==
    /\ InitLoading
    /\ [][NextLoading]_vars
    /\ WF_vars(SettleDocs)
    /\ WF_vars(SettleStats)
    /\ WF_vars(SettleBoard)

\* the Dashboard of components/Dashboard.tsx, in an authenticated session
InitDash ==
    /\ InitApp({"token"}, {"flat"}, {"/dashboard"})
    /\ isAuthenticated

NextDash ==
    \/ \E f \in AllFetches, cats \in CategoryLists :
           StatsResponse(f, [i \in DOMAIN cats |-> Doc(i, cats[i])])
    \/ \E f \in AllFetches : StatsFailure(f)
    \/ LoginCall
    \/ \E tok \in ResponseTokens, usr \in ResponseUsers : LoginResponse(tok, usr)

SpecDash == InitDash /\ [][NextDash]_vars

\* the requests of the Documents views over both session stores, from a first
\* visit or from a session restored from storage
InitRequests == InitApp({"token", "access_token"}, {"flat", "nested"}, {"/login"})

NextRequests ==
    \/ LoginCall
    \/ \E tok \in {Str("t1"), Str("t2")} : LoginResponse(tok, Obj("alice"))
    \/ \E tok \in {Str("t1"), Str("t2")} : LoginTokenResponse("login", tok)
    \/ \E tok \in {Str("t1"), Str("t2")} : LoginUserResponse("login", tok, Obj("alice"))
    \/ \E c \in PendingCalls : CallFailure(c, "401")
    \/ Logout
    \/ Reload
    \/ \E p \in {"/documents"} : Navigate(p)
    \/ \E q \in Queries : SetSearchQuery(q)
    \/ \E f \in AllFetches, data \in ServerLists : DocsResponse(f, data)
    \/ \E f \in AllFetches : DocsFailure(f)

SpecRequests == InitRequests /\ [][NextRequests]_vars

(***************************************************************************)
(* Properties of the session store and the route guard                     *)
(***************************************************************************)
SessionCleared ==
    /\ token = Null
    /\ user = Null
    /\ ~isAuthenticated
    /\ GetItem(storage, "token") = Null
    /\ GetItem(storage, "user") = Null

\* a login completes: the step that handles the last successful response of login()
LoginCompletes(tok, usr) ==
    \/ LoginResponse(tok, usr)
    \/ \E op \in {"login", "register"} : LoginUserResponse(op, tok, usr)

\* C1: when login() succeeds with the token tok and the user usr, then on completion
\* isAuthenticated is true, the in-memory token is tok, storage key 'token' holds tok
\* and storage key 'user' holds (the JSON text of) usr; from any prior state, in both
\* store variants.
C1_LoginPersists ==
    [][\A tok \in ResponseTokens, usr \in ResponseUsers :
          (LoginCompletes(tok, usr) /\ tok.t = "string" /\ usr.t = "object")
          => /\ isAuthenticated'
             /\ token' = tok
             /\ user' = usr
             /\ GetItem(storage', "token") = tok
             /\ GetItem(storage', "user").t = "string"
             /\ JSONparse(GetItem(storage', "user").v) = usr]_vars

C1_Witness ==
    /\ lastResult = Settled("login", "resolved", "")
    /\ isAuthenticated
    /\ token = Str("t2")
    /\ GetItem(storage, "token") = Str("t2")
    /\ user = Obj("alice")
    /\ pending # EmptyBag

\* C2: from every reachable state logout() leaves token = null, user = null,
\* isAuthenticated = false and both storage keys absent; a logout() of an already
\* cleared session changes nothing.
C2_LogoutClears ==
    [][(Logout \/ HandleLogout)
          => /\ SessionCleared'
             /\ SessionCleared => UNCHANGED <<token, user, isAuthenticated, storage>>]_vars

C2_Witness ==
    /\ lastResult = Settled("logout", "resolved", "")
    /\ SessionCleared
    /\ \E tok \in ResponseTokens : BagIn(Call("login", "me", tok), pending)

\* C3: in every reachable state of the session store isAuthenticated equals (token
\* is not null).
C3_AuthenticatedIffTokenNotNull == storeLoaded => (isAuthenticated <=> token # Null)

\* C4: in every reachable state isAuthenticated is true iff token is a non-empty string.
C4_AuthenticatedIffToken ==
    storeLoaded => (isAuthenticated <=> (token.t = "string" /\ token.v # ""))

ProtectedViews == {"Dashboard", "Documents", "Upload"}

ProtectedPaths(r) ==
    IF r = "guard" THEN {"/", "/documents", "/upload"}
    ELSE {"/dashboard", "/documents", "/upload"}

ProtectedViewAt(p) ==
    CASE p \in {"/", "/dashboard"} -> "Dashboard"
      [] p = "/documents" -> "Documents"
      [] p = "/upload" -> "Upload"

\* C5: on every protected route the guard renders the protected view iff
\* isAuthenticated is true at render time and otherwise redirects to '/login'; no
\* protected view is rendered while isAuthenticated is false.
C5_RouteGuard ==
    storeLoaded =>
        /\ path \in ProtectedPaths(router) =>
              IF isAuthenticated
              THEN screen.kind = "view" /\ screen.view = ProtectedViewAt(path)
              ELSE screen.kind = "redirect" /\ screen.to = "/login"
        /\ (screen.kind = "view" /\ screen.view \in ProtectedViews) => isAuthenticated

\* C9: in every reachable state, creating the store again from storage yields the
\* token, the user and the isAuthenticated value the store holds.
C9_ReloadRestores ==
    storeLoaded =>
        CreateStore(storage) = [loaded |-> TRUE, token |-> token, user |-> user,
                                isAuthenticated |-> isAuthenticated]

\* C10: a login or register that does not succeed is rejected with the generic
\* message of its operation, whatever the failure, in every store variant.
C10_GenericMessage ==
    (lastResult.outcome = "rejected" /\ lastResult.op \in {"login", "register"})
        => lastResult.message = (IF lastResult.op = "login" THEN "Invalid credentials"
                                 ELSE "Registration failed")

(***************************************************************************)
(* Properties of the views                                                 *)
(***************************************************************************)
AllowedStatusChanges ==
    {<<"waiting", "uploading">>, <<"uploading", "processing">>,
     <<"processing", "complete">>, <<"uploading", "error">>}

\* C6: every change of a task's status is waiting->uploading, uploading->processing,
\* processing->complete or uploading->error, and no task is processing, complete or
\* failed without having been uploading before.
C6_StatusTransitions ==
    /\ [][\A i \in DOMAIN files, j \in DOMAIN files' :
             (files[i].file = files'[j].file /\ files[i].status # files'[j].status)
             => <<files[i].status, files'[j].status>> \in AllowedStatusChanges]_vars
    /\ [](\A i \in DOMAIN files :
             files[i].status \in {"processing", "complete", "error"}
             => files[i].file \in everUploading)

C6_Witness ==
    /\ uploadMounted
    /\ \E i \in DOMAIN files :
          /\ files[i].status = "uploading"
          /\ \E u \in uploads : u.file = files[i].file /\ u.phase = "delay"
    /\ \E i \in DOMAIN files : files[i].status = "waiting"

\* C7: after a failed GET of the document list has been handled, the view's document
\* list is empty and a non-null error string is displayed, in both Documents views.
C7_FailedFetch ==
    (docsMounted /\ docsLast = "failure") => (documents = << >> /\ docsError # Null)

RECURSIVE SumCounts(_, _)
SumCounts(obj, keys) ==
    IF keys = {} THEN 0
    ELSE LET k == CHOOSE k \in keys : TRUE
         IN  obj[k].n + SumCounts(obj, keys \ {k})

\* C8: the category counts of the dashboard map every category of the fetched list to
\* the number of documents of that category and hold no other key; they sum to total,
\* which is the length of the list.
C8_CategoryCounts ==
    (dashMounted /\ stats # Null) =>
        LET docs == dashLast
            cats == {docs[i].category : i \in DOMAIN docs}
        IN  /\ stats.total = Len(docs)
            /\ DOMAIN stats.categories = cats
            /\ \A c \in cats :
                  stats.categories[c] =
                      JSNum(Cardinality({i \in DOMAIN docs : docs[i].category = c}))
            /\ SumCounts(stats.categories, cats) = stats.total

(***************************************************************************)
(* Properties of the requests                                              *)
(***************************************************************************)
\* the step sends the request f of the Documents view
SendsFetch(f) ==
    \/ CopiesIn(f, fetches') > CopiesIn(f, fetches)
    \/ ~docsMounted /\ docsMounted' /\ BagIn(f, fetches')

\* C11: every request a view sends to a protected endpoint while the session is
\* authenticated carries the header 'Authorization: Bearer <t>', t being the token of
\* the session, also in a session restored from storage with no login in the page load.
C11_BearerOnRequests ==
    [][\A f \in AllFetches :
          (SendsFetch(f) /\ isAuthenticated')
          => f.authorization = BearerHeader(token')]_vars

(***************************************************************************)
(* Properties of the upload list                                           *)
(***************************************************************************)
\* a step of the upload lifecycle of the file n: mark uploading, a progress event,
\* the response, the end of the processing delay or the failure
LifecycleStep(n) ==
    \/ \E i \in DOMAIN files : files[i].file = n /\ UploadFile(i)
    \/ \E u \in AllUploadCalls :
          /\ u.file = n
          /\ \/ \E ev \in ProgressEvents : UploadProgress(u, ev)
             \/ UploadResponse(u)
             \/ ProcessingDone(u)
             \/ UploadFailure(u)

\* C12: a started upload leaves the uploading status once its request has settled
\* (processing with progress 100 on success, error 'Upload failed' on failure): no
\* task of the mounted page is uploading unless its POST is still awaited.
C12_SettledLeavesUploading ==
    uploadMounted =>
        \A i \in DOMAIN files :
            files[i].status = "uploading"
            => \E u \in uploads : u.file = files[i].file /\ u.phase = "post"

(***************************************************************************)
(* Properties of register and of the default header                        *)
(***************************************************************************)
LoginRequests == {c \in PendingCalls : c.phase \in {"post", "me"}}

\* C13: where register chains into login, a register whose account creation and
\* chained login both succeed ends with the session authenticated as the user of the
\* response; when the account creation fails, no login request is sent and token,
\* user, isAuthenticated and storage are unchanged.
C13_RegisterChainsLogin ==
    [][storeVariant = "access_token" =>
          /\ \A tok \in ResponseTokens, usr \in ResponseUsers :
                 LoginUserResponse("register", tok, usr)
                 => /\ isAuthenticated'
                    /\ token' = tok
                    /\ user' = usr
                    /\ lastResult' = Settled("register", "resolved", "")
          /\ \A f \in Failures :
                 CallFailure(Call("register", "create", Undefined), f)
                 => /\ UNCHANGED <<token, user, isAuthenticated, storage>>
                    /\ lastResult'.outcome = "rejected"
                    /\ \A c \in LoginRequests :
                           CopiesIn(c, pending') = CopiesIn(c, pending)]_vars

C13_Witness ==
    /\ storeVariant = "access_token"
    /\ lastResult = Settled("register", "resolved", "")
    /\ isAuthenticated
    /\ token = Str("t2")
    /\ user = Obj("alice")
    /\ BagIn(Call("register", "create", Undefined), pending)

\* C14: in the default-header store, whenever no login is in flight the default
\* Authorization header is present exactly when isAuthenticated is true, and it is
\* then 'Bearer ' followed by the session token.
C14_DefaultHeader ==
    (storeLoaded /\ storeVariant = "access_token"
        /\ \A c \in LoginRequests : ~BagIn(c, pending))
    => /\ authHeader # Null <=> isAuthenticated
       /\ isAuthenticated => authHeader = BearerHeader(token)

(***************************************************************************)
(* Properties of the Documents views and the Dashboard                     *)
(***************************************************************************)
\* C15: in the views that fetch on mount the loading flag is true in every state in
\* which a GET of the view has not settled yet, re-fetches included.
C15_LoadingWhilePending ==
    /\ (docsMounted /\ fetches # EmptyBag) => docsLoading
    /\ (dashMounted /\ dashFetches # EmptyBag) => dashLoading

\* C16: uploads of different files are independent: a lifecycle step of the upload of
\* one file changes neither the number nor the order of the tasks, and leaves the
\* status, progress and error of every other task as they were.
C16_UploadsIndependent ==
    [][\A n \in 1..MaxFiles :
          LifecycleStep(n)
          => /\ Len(files') = Len(files)
             /\ \A j \in DOMAIN files :
                    /\ files'[j].file = files[j].file
                    /\ files[j].file # n
                       => /\ files'[j].status = files[j].status
                          /\ files'[j].progress = files[j].progress
                          /\ files'[j].error = files[j].error]_vars

\* C17: a delete the user confirmed and the server accepted removes exactly the
\* document of that id from the local list and keeps every other document; a delete
\* the user cancelled sends nothing and changes nothing; a delete the server rejected
\* leaves the list unchanged and sets the error 'Failed to delete document'.
C17_DeleteUpdatesList ==
    [][/\ \A d \in BagToSet(deletes) :
             DeleteResponse(d) => documents' = FilterOut(documents, d.id)
       /\ \A id \in DocumentIds :
             HandleDelete(id, FALSE)
             => UNCHANGED <<documents, docsError, docsLoading, fetches, deletes>>
       /\ \A d \in BagToSet(deletes) :
             DeleteFailure(d)
             => /\ documents' = documents
                /\ docsError' = Str("Failed to delete document")]_vars

\* the File handles that have a task in the list
FilesListed(list) == {list[j].file : j \in DOMAIN list}

\* the list without its element at i
WithoutIndex(list, i) ==
    [j \in 1..(Len(list) - 1) |-> IF j < i THEN list[j] ELSE list[j + 1]]

\* C18: selecting files appends one task per accepted file, waiting with progress 0,
\* after the existing tasks and without changing them; removeFile removes the given
\* task and no other; a task that is gone from the list, its upload in flight or not,
\* never comes back through a later callback.
C18_DropAndRemove ==
    [][/\ \A k \in 1..2 :
             OnDrop(k)
             => /\ Len(files') = Len(files) + k
                /\ SubSeq(files', 1, Len(files)) = files
                /\ \A j \in (Len(files) + 1)..Len(files') :
                       /\ files'[j].status = "waiting"
                       /\ files'[j].progress = Num(0)
                       /\ \A l \in DOMAIN files' : files'[l].file = files'[j].file => l = j
       /\ \A i \in DOMAIN files :
             RemoveFile(i) => files' = WithoutIndex(files, i)
       /\ \A n \in 1..nextFile :
             n \notin FilesListed(files) => n \notin FilesListed(files')]_vars

C18_Witness ==
    /\ uploadMounted
    /\ Len(files) = 2
    /\ \E u \in uploads : u.phase = "delay" /\ u.file \notin FilesListed(files)
    /\ \E u \in uploads : u.phase = "post" /\ u.file \in FilesListed(files)

\* C19: a progress event of a task's upload sets the progress of that task to
\* loaded/total*100: while the task is uploading, its progress is the percentage of
\* the event its upload raised last.
C19_ProgressFollowsEvents ==
    uploadMounted =>
        \A j \in DOMAIN files :
            (files[j].file = lastProgress.file /\ files[j].status = "uploading")
            => files[j].progress = lastProgress.progress

(***************************************************************************)
(* Properties of failed calls                                              *)
(***************************************************************************)
\* C20: a login or register that fails leaves no trace in token, user,
\* isAuthenticated, storage or the default Authorization header.  Start-up and
\* logout leave a session without token with none of them set, and only a login that
\* succeeds sets the token: so while the token is null and no login awaits GET
\* /auth/me, the failed calls made so far must have left all of them unset.
C20_FailureLeavesNoTrace ==
    (storeLoaded /\ token = Null
        /\ \A c \in PendingCalls : c.phase = "me" => ~BagIn(c, pending))
    => /\ SessionCleared
       /\ authHeader = Null

(***************************************************************************)
(* Properties of concurrent operations                                     *)
(***************************************************************************)
\* the step handles the last successful response of a login or register call that was
\* in flight when logout() was called
StaleCallCompletes ==
    /\ BagCardinality(staleCalls') < BagCardinality(staleCalls)
    /\ \E tok \in ResponseTokens, usr \in ResponseUsers :
           \/ LoginResponse(tok, usr)
           \/ RegisterResponse(tok, usr)
           \/ \E op \in {"login", "register"} : LoginUserResponse(op, tok, usr)

\* C21: logout is final until the user logs in again: when logout() was called while
\* a login or register was in flight, the session is still unauthenticated (token
\* null, isAuthenticated false, storage keys absent) after the response of that call
\* has been handled.
C21_LogoutIsFinal ==
    [][(StaleCallCompletes /\ SessionCleared) => SessionCleared']_vars

\* C22: in the searchable Documents view, once every request has settled, the list
\* and the category options shown are those of the response to the most recent
\* (searchQuery, selectedCategory), whatever the order of the responses.
C22_LatestQueryShown ==
    (docsMounted /\ docsVariant = "search" /\ fetches = EmptyBag /\ docsLast = "success")
    => /\ shownFor.search = searchQuery
       /\ shownFor.category = selectedCategory

\* the ids of the documents of a list
IdsOf(list) == {list[j].id : j \in DOMAIN list}

\* C23: when two deletes of different documents are in flight together and both
\* succeed, neither document is in the list afterwards: handling the response of an
\* accepted delete leaves its document out of the list and puts no document back
\* that was no longer in it.
C23_DeletedStayDeleted ==
    [][\A d \in BagToSet(deletes) :
          DeleteResponse(d)
          => /\ d.id \notin IdsOf(documents')
             /\ IdsOf(documents') \subseteq IdsOf(documents)]_vars

\* C24: in every reachable state the progress of every upload task is a number from 0
\* to 100, whatever progress events were raised (total missing or zero, loaded greater
\* than total).
C24_ProgressInRange ==
    \A i \in DOMAIN files :
        /\ files[i].progress.kind = "number"
        /\ files[i].progress.n >= 0
        /\ files[i].progress.n <= 100

C24_Witness ==
    /\ uploadMounted
    /\ lastProgress.progress = Infinity
    /\ \E i \in DOMAIN files :
          /\ files[i].file = lastProgress.file
          /\ files[i].status = "uploading"
    /\ \E u \in uploads : u.file # lastProgress.file /\ u.phase = "delay"

(***************************************************************************)
(* Properties of navigation                                                *)
(***************************************************************************)
\* what the router shows at p once the redirects it renders have been followed, at
\* most fuel of them
RECURSIVE Settle(_, _, _, _)
Settle(r, p, auth, fuel) ==
    LET e == RouteElement(r, p, auth, TRUE)
    IN  IF e.kind = "redirect" /\ fuel > 0 THEN Settle(r, e.to, auth, fuel - 1) ELSE e

\* C25: every navigation the application performs on its own settles, after finitely
\* many redirects, on a route the router defines and that renders a view; an
\* authenticated user on '/login' or '/register' ends on the dashboard view.
C25_NavigationSettles ==
    storeLoaded =>
        /\ Settle(router, path, isAuthenticated, Cardinality(Paths)).kind = "view"
        /\ isAuthenticated =>
              \A p \in {"/login", "/register"} :
                  Settle(router, p, isAuthenticated, Cardinality(Paths)).view = "Dashboard"

(***************************************************************************)
(* Properties of the Dashboard of pages/Dashboard.tsx                      *)
(***************************************************************************)
\* C26: the dashboard updates stats and recent documents all-or-nothing: when both
\* requests of the mounted view succeed both are replaced by the responses; when
\* either fails neither is changed, whatever the other request returned; as long as
\* one request is pending neither is changed.
C26_AllOrNothing ==
    [][\A l \in AllLoads :
          /\ l.live =>
               /\ \A data \in StatsData :
                      BoardStatsResponse(l, data)
                      => IF l.recent.t = "fulfilled"
                         THEN board'.stats = data /\ board'.recentDocuments = l.recent.v
                         ELSE UNCHANGED board
               /\ \A data \in RecentLists :
                      BoardRecentResponse(l, data)
                      => IF l.stats.t = "fulfilled"
                         THEN board'.stats = l.stats.v /\ board'.recentDocuments = data
                         ELSE UNCHANGED board
          /\ (BoardStatsFailure(l) \/ BoardRecentFailure(l))
             => /\ board'.stats = board.stats
                /\ board'.recentDocuments = board.recentDocuments
                /\ ~BagIn(l, boardLoads') \/ CopiesIn(l, boardLoads) > 1]_vars

C26_Witness ==
    /\ board.mounted
    /\ ~board.loading
    /\ board.stats = ZeroStats
    /\ board.recentDocuments = << >>
    /\ \E l \in BagToSet(boardLoads) : ~l.live /\ l.stats.t = "fulfilled"

(***************************************************************************)
(* Properties of the single-file Upload view                               *)
(***************************************************************************)
\* C27: in the single-file Upload view at most one of uploading, success and
\* error-present holds, and uploading is true exactly while at least one upload
\* request of the view is in flight.
C27_UploadingWhileInFlight ==
    /\ ~(single.uploading /\ single.success)
    /\ ~(single.uploading /\ single.error # Null)
    /\ ~(single.success /\ single.error # Null)
    /\ single.uploading <=> singlePosts # EmptyBag

(***************************************************************************)
(* Properties of the loading flags                                         *)
(***************************************************************************)
\* the mounted view shows its loading indicator
ViewLoading ==
    \/ docsMounted /\ docsLoading
    \/ dashMounted /\ dashLoading
    \/ board.mounted /\ board.loading

\* C28: for every view that fetches on mount, when the requests it issued settle,
\* the loading flag eventually becomes false and stays false for the rest of the
\* view's life.
C28_LoadingEnds == <>[](~ViewLoading)

\* a view whose first fetch failed is no longer loading while a later fetch of it
\* is in flight
C28_Witness ==
    /\ docsMounted
    /\ docsLast = "failure"
    /\ ~docsLoading
    /\ fetches # EmptyBag

====
